---- MODULE Spec2Model ----
(***************************************************************************)
(* A model of the GenericTrampoliner MIR pass                              *)
(* (compiler/rustc_mir/src/transform/generic_trampoline.rs):               *)
(*   run_pass -> find_trampoline_point -> split_body.                      *)
(*                                                                         *)
(* Conventions.  BasicBlock ids are 0-based (bb0 is the entry block);      *)
(* basic_blocks is a function 0..n-1 -> BasicBlockData.  The statements of *)
(* a block are a TLA+ sequence, so the statement at statement_index i is   *)
(* statements[i+1]; a Location is [block, statement_index] with            *)
(* statement_index = Len(statements) denoting the terminator.              *)
(* Option<T> is a sequence: None is <<>> and Some(x) is <<x>>.            *)
(***************************************************************************)
EXTENDS Naturals, Sequences, FiniteSets

VARIABLES
    body,                 \* the &mut Body the pass runs on
    entry_body,           \* the body as it was handed to the pass (never written)
    pc,                   \* position of the pass
    liveness_results,     \* find_trampoline_point: per-block entry sets of MaybeLiveLocals
    visit_order,          \* blocks the ResultsVisitor still has to walk (postorder)
    visit_index,          \* hook position inside the block being walked
    state,                \* the FlowState the engine hands to the visitor hooks
    block_map,            \* AnnotateGenericStatements::block_map
    rpo,                  \* find_trampoline_point: the reverse-postorder block list
    exit_block,           \* find_trampoline_point: the exit Location
    dominators,           \* find_trampoline_point: body.dominators()
    locations,            \* find_trampoline_point: Locations still to be scanned
    last_generic_point,   \* find_trampoline_point: Option<Location>
    candidate_split_point,\* find_trampoline_point: Option<Location>
    split_point,          \* run_pass: what find_trampoline_point returned
    first_split_statement,\* split_body: its Location argument
    impl_fn_start,        \* run_pass: what split_body returned
    panic,                \* the message of the panic that ended the pass, or ""
    structure,            \* SessionDeriveBuilder::structure: the annotated struct (never written)
    attrs,                \* build: the struct attributes the map of line 171 has yet to take
    kind,                 \* SessionDeriveBuilderState::kind: Option<DiagnosticId>
    preamble,             \* build: the tokens collected from the struct attributes
    implementation,       \* build: the body of the generated as_error, once built
    emitted,              \* the Diagnostics emitted so far
    referenced_fields,    \* build_format: what the last completed scan collected
    build_pc,             \* position of the derive builder
    build_panic           \* the message of the panic that ended the derive, or ""

\* The state of the GenericTrampoliner pass, and the state of the derive builder.
pass_vars == <<body, entry_body, pc, liveness_results, visit_order, visit_index, state,
               block_map, rpo, exit_block, dominators, locations, last_generic_point,
               candidate_split_point, split_point, first_split_statement,
               impl_fn_start, panic>>

derive_vars == <<structure, attrs, kind, preamble, implementation, emitted,
                 referenced_fields, build_pc, build_panic>>

vars == <<body, entry_body, pc, liveness_results, visit_order, visit_index, state,
          block_map, rpo, exit_block, dominators, locations, last_generic_point,
          candidate_split_point, split_point, first_split_statement,
          impl_fn_start, panic, structure, attrs, kind, preamble, implementation,
          emitted, referenced_fields, build_pc, build_panic>>

(***************************************************************************)
(* Bounds of the bodies the pass is run on.                                *)
(***************************************************************************)
MaxBlocks == 3
MaxStmts == 2
MaxBodyStmts == 3
MaxSplitBlocks == 2
MaxSplitStmts == 3
NumLocals == 2

None == <<>>
Some(x) == <<x>>
is_some(o) == o # <<>>
is_none(o) == o = <<>>
unwrap(o) == o[1]

Locals == 1..NumLocals

\* TypeFlags: the mask tested by check_for_pinch_point.
HAS_TY_PARAM == {"HAS_TY_PARAM"}
NEEDS_SUBST == {"HAS_TY_PARAM", "HAS_RE_PARAM", "HAS_CT_PARAM"}

START_BLOCK == 0

Location(b, i) == [block |-> b, statement_index |-> i]

\* SourceInfo of the statement or terminator written at position (b, i).
SourceInfo(b, i) == <<b, i>>

\* Statement `place = rvalue` (an Assign of a copy of one local to another).
Assign(d, s, si) == [kind |-> "Assign", place |-> d, rvalue |-> s, source_info |-> si]

\* A terminator: its kind, its successors in their listed order, and the local its
\* operand reads (the discriminant of a SwitchInt, the argument of a Call), if any.
Terminator(k, ts, op, si) == [kind |-> k, targets |-> ts, operand |-> op, source_info |-> si]

BasicBlockData(ss, t, c) == [statements |-> ss, terminator |-> t, is_cleanup |-> c]

NumBlocks(b) == Cardinality(DOMAIN b.basic_blocks)
BlockIds(b) == DOMAIN b.basic_blocks

\* BasicBlockData::terminator(): the successors of a block with its terminator in place.
successors(bbd) == IF is_some(bbd.terminator) THEN unwrap(bbd.terminator).targets ELSE <<>>

\* IndexVec::push: the new element gets the next index, which is returned.
push(bbs, bbd) ==
    LET n == Cardinality(DOMAIN bbs)
    IN  [blocks |-> [i \in 0..n |-> IF i < n THEN bbs[i] ELSE bbd], index |-> n]

(***************************************************************************)
(* traversal::postorder / reverse_postorder: a depth-first walk from the   *)
(* entry block that follows the successors in their listed order.          *)
(***************************************************************************)
RECURSIVE PostorderVisit(_, _, _)
RECURSIVE PostorderSuccs(_, _, _, _)
PostorderSuccs(bbs, succs, i, acc) ==
    IF i > Len(succs) THEN acc
    ELSE IF succs[i] \in acc.visited THEN PostorderSuccs(bbs, succs, i + 1, acc)
    ELSE PostorderSuccs(bbs, succs, i + 1, PostorderVisit(bbs, succs[i], acc))

PostorderVisit(bbs, b, acc) ==
    LET after == PostorderSuccs(bbs, successors(bbs[b]), 1,
                                [visited |-> acc.visited \cup {b}, order |-> acc.order])
    IN  [visited |-> after.visited, order |-> Append(after.order, b)]

postorder(b) ==
    IF NumBlocks(b) = 0 THEN <<>>
    ELSE PostorderVisit(b.basic_blocks, START_BLOCK, [visited |-> {}, order |-> <<>>]).order

Reverse(s) == [i \in 1..Len(s) |-> s[Len(s) + 1 - i]]

reverse_postorder(b) == Reverse(postorder(b))

SeqToSet(s) == {s[i] : i \in 1..Len(s)}

(***************************************************************************)
(* Body::dominators: for every block reachable from the entry, the set of  *)
(* blocks that dominate it (the block itself included).                    *)
(***************************************************************************)
predecessors(b, n) ==
    {p \in BlockIds(b) : n \in SeqToSet(successors(b.basic_blocks[p]))}

RECURSIVE DominatorsFix(_, _, _)
DominatorsFix(b, reach, dom) ==
    LET step == [n \in reach |->
                    IF n = START_BLOCK THEN {n}
                    ELSE LET ps == predecessors(b, n) \cap reach
                         IN  {n} \cup {d \in reach : \A p \in ps : d \in dom[p]}]
    IN  IF step = dom THEN dom ELSE DominatorsFix(b, reach, step)

Dominators(b) ==
    LET reach == SeqToSet(postorder(b))
    IN  DominatorsFix(b, reach, [n \in reach |-> reach])

\* Dominators::is_dominated_by(node, dom)
is_dominated_by(doms, node, dom) == dom \in doms[node]

\* Location::dominates
dominates(self, other, doms) ==
    IF self.block = other.block
    THEN self.statement_index <= other.statement_index
    ELSE is_dominated_by(doms, other.block, self.block)

(***************************************************************************)
(* MaybeLiveLocals { drop_is_use: false }: a backward may-analysis.        *)
(* The transfer function of `place = rvalue` kills place, then gens rvalue.*)
(***************************************************************************)
statement_effect(stmt, live) == (live \ {stmt.place}) \cup {stmt.rvalue}

\* The transfer function of a terminator gens the local its operand reads.
terminator_effect(term, live) == live \cup {term.operand[i] : i \in 1..Len(term.operand)}

\* The transfer function of the statement or terminator x.
primary_effect(x, live) ==
    IF x.kind = "Assign" THEN statement_effect(x, live) ELSE terminator_effect(x, live)

RECURSIVE apply_statements(_, _, _)
\* The set live before statement i+1.. of ss, given the set live after the last one.
apply_statements(ss, i, live) ==
    IF i = 0 THEN live ELSE apply_statements(ss, i - 1, statement_effect(ss[i], live))

RECURSIVE iterate_to_fixpoint(_, _)
\* entry[b] is the state on entry to b in the direction of the analysis: the locals
\* live at the end of b (after its terminator).
iterate_to_fixpoint(b, entry) ==
    LET bbs == b.basic_blocks
        before_terminator(n) ==
            IF is_some(bbs[n].terminator)
            THEN terminator_effect(unwrap(bbs[n].terminator), entry[n])
            ELSE entry[n]
        live_in(n) == apply_statements(bbs[n].statements, Len(bbs[n].statements),
                                       before_terminator(n))
        step == [n \in BlockIds(b) |->
                    entry[n] \cup UNION {live_in(s) : s \in SeqToSet(successors(bbs[n]))}]
    IN  IF step = entry THEN entry ELSE iterate_to_fixpoint(b, step)

MaybeLiveLocals(b) == iterate_to_fixpoint(b, [n \in BlockIds(b) |-> {}])

(***************************************************************************)
(* BitSet<usize>                                                           *)
(***************************************************************************)
new_empty(domain_size) == [domain_size |-> domain_size, elems |-> {}]
contains(set, elem) == elem \in set.elems
insert(set, elem) == [set EXCEPT !.elems = @ \cup {elem}]

(***************************************************************************)
(* The bodies the pass is run on.                                          *)
(***************************************************************************)
\* local_decls: the TypeFlags of each local's type.  _1 is declared with a type
\* parameter; every other local is concrete (its flags are outside the tested mask).
\* fn f<T>(_1: T, _2: u32, ...)
GenericFnDecls == [l \in Locals |-> IF l = 1 THEN {"HAS_TY_PARAM"} ELSE {}]

RECURSIVE SumLen(_, _)
\* The number of statements in the blocks 0..n-1 of the statement lists.
SumLen(stmts, n) == IF n = 0 THEN 0 ELSE Len(stmts[n - 1]) + SumLen(stmts, n - 1)

Terminators(n) ==
    {[kind |-> "Return", targets |-> <<>>, operand |-> None]}
    \cup {[kind |-> "Goto", targets |-> <<t>>, operand |-> None] : t \in 0..(n - 1)}
    \cup {[kind |-> "SwitchInt", targets |-> t, operand |-> None] :
            t \in {q \in (0..(n - 1)) \X (0..(n - 1)) : q[1] # q[2]}}

\* The statements written in the bodies: a copy of one local into another one.
AssignKinds == {k \in Locals \X Locals : k[1] # k[2]}

\* All statement lists of length at most m, each statement given by <<place, rvalue>>.
RECURSIVE StmtLists(_)
StmtLists(m) ==
    IF m = 0 THEN {<<>>}
    ELSE LET shorter == StmtLists(m - 1)
         IN  shorter \cup {Append(l, k) : l \in {x \in shorter : Len(x) = m - 1},
                                          k \in AssignKinds}

\* The body with the given terminators, statement lists and cleanup flags; every
\* statement and terminator carries the SourceInfo of the place it is written at.
MkBody(n, terms, stmts, cleanup, decls) ==
    [basic_blocks |->
        [b \in 0..(n - 1) |->
            BasicBlockData(
                [i \in 1..Len(stmts[b]) |->
                    Assign(stmts[b][i][1], stmts[b][i][2], SourceInfo(b, i - 1))],
                Some(Terminator(terms[b].kind, terms[b].targets, terms[b].operand,
                                SourceInfo(b, Len(stmts[b])))),
                b \in cleanup)],
     local_decls |-> decls]

\* BlockLocations running one index past the terminator's.
BlockLocations_past_terminator(bbs, b) ==
    [i \in 1..(Len(bbs[b].statements) + 2) |-> Location(b, i - 1)]

\* Locations of a block: every statement index and the terminator's.
BlockLocations(bbs, b) ==
    [i \in 1..(Len(bbs[b].statements) + 1) |-> Location(b, i - 1)]

RECURSIVE flat_map_locations(_, _)
flat_map_locations(bbs, blocks) ==
    IF blocks = <<>> THEN <<>>
    ELSE BlockLocations(bbs, Head(blocks)) \o flat_map_locations(bbs, Tail(blocks))

(***************************************************************************)
(* AnnotateGenericStatements                                               *)
(***************************************************************************)
contains_key(map, k) == k \in DOMAIN map

map_insert(map, k, v) == [x \in DOMAIN map \cup {k} |-> IF x = k THEN v ELSE map[x]]

\* has_live_generic: "ok" with the bit, or the panic of the failed lookup.
has_live_generic(map, location) ==
    IF ~contains_key(map, location.block)
    THEN [panic |-> "has_live_generic: no entry for block", value |-> FALSE]
    ELSE IF location.statement_index >= map[location.block].domain_size
    THEN [panic |-> "BitSet::contains: index out of domain", value |-> FALSE]
    ELSE [panic |-> "", value |-> contains(map[location.block], location.statement_index)]

\* mark_has_live_generic storing a fresh bitset that holds the one index, in place
\* of inserting the index into the block's bitset.
mark_has_live_generic_overwrite(map, location) ==
    IF ~contains_key(map, location.block)
    THEN [panic |-> "mark_has_live_generic: no entry for block", map |-> map]
    ELSE IF location.statement_index >= map[location.block].domain_size
    THEN [panic |-> "BitSet::insert: index out of domain", map |-> map]
    ELSE [panic |-> "",
          map |-> [map EXCEPT ![location.block] =
                      insert(new_empty(@.domain_size), location.statement_index)]]

\* mark_has_live_generic: the new block_map, or the panic of the failed lookup.
mark_has_live_generic(map, location) ==
    IF ~contains_key(map, location.block)
    THEN [panic |-> "mark_has_live_generic: no entry for block", map |-> map]
    ELSE IF location.statement_index >= map[location.block].domain_size
    THEN [panic |-> "BitSet::insert: index out of domain", map |-> map]
    ELSE [panic |-> "",
          map |-> [map EXCEPT ![location.block] = insert(@, location.statement_index)]]

\* The test of check_for_pinch_point on one type's flags.
is_generic_ty(flags) == (flags \cap (HAS_TY_PARAM \cup NEEDS_SUBST)) # {}

\* check_for_pinch_point looking at the type of every local, live or not.
check_for_pinch_point_all_locals(map, decls, flow_state, location) ==
    LET live_local_types == {decls[l] : l \in DOMAIN decls}
    IN  IF \E ty \in live_local_types : is_generic_ty(ty)
        THEN mark_has_live_generic(map, location)
        ELSE [panic |-> "", map |-> map]

check_for_pinch_point(map, decls, flow_state, location) ==
    LET live_local_types == {decls[l] : l \in {x \in DOMAIN decls : x \in flow_state}}
    IN  IF \E ty \in live_local_types : is_generic_ty(ty)
        THEN mark_has_live_generic(map, location)
        ELSE [panic |-> "", map |-> map]

\* The FlowState handed to the after-primary-effect hooks when the transfer function
\* of the statement or terminator has been applied to it first: the locals live
\* before the statement or terminator executes.
after_primary_effect_applied(x, flow_state) == primary_effect(x, flow_state)

\* The FlowState the engine hands to visit_statement_after_primary_effect and
\* visit_terminator_after_primary_effect for the statement or terminator x, given
\* the state it holds when it arrives at x walking the block backwards: the locals
\* live after executing x.
after_primary_effect(x, flow_state) == flow_state

(***************************************************************************)
(* Body::source_info(location): the SourceInfo of the statement at the     *)
(* location, or of the block's terminator when the index is the number of  *)
(* statements.  Reading a terminator that is not there panics.             *)
(***************************************************************************)
source_info(b, location) ==
    LET block == b.basic_blocks[location.block]
        stmts == block.statements
        idx == location.statement_index
    IN  IF idx < Len(stmts)
        THEN [panic |-> "", value |-> stmts[idx + 1].source_info]
        ELSE IF idx # Len(stmts)
        THEN [panic |-> "assertion failed: idx == stmts.len()", value |-> <<>>]
        ELSE IF is_none(block.terminator)
        THEN [panic |-> "invalid terminator state", value |-> <<>>]
        ELSE [panic |-> "", value |-> unwrap(block.terminator).source_info]

(***************************************************************************)
(* split_body, lines 84-125.                                               *)
(***************************************************************************)
\* IndexVec::insert right after position at: the later elements move up by one.
insert_after(bbs, at, bbd) ==
    LET n == Cardinality(DOMAIN bbs)
    IN  [blocks |-> [i \in 0..n |-> IF i <= at THEN bbs[i]
                                    ELSE IF i = at + 1 THEN bbd ELSE bbs[i - 1]],
         index |-> at + 1]

\* cleave putting the new block right after the block it splits, not at the end.
cleave_insert_after(b, location) ==
    LET bbs == b.basic_blocks
        current_bb_data == bbs[location.block]
        idx == location.statement_index
        new_bb_data ==
            BasicBlockData(
                SubSeq(current_bb_data.statements, idx + 1,
                       Len(current_bb_data.statements)),
                current_bb_data.terminator,
                current_bb_data.is_cleanup)
        drained == [bbs EXCEPT ![location.block] =
                        [@ EXCEPT !.statements = SubSeq(@, 1, idx),
                                  !.terminator = None]]
        pushed == insert_after(drained, location.block, new_bb_data)
    IN  [body |-> [b EXCEPT !.basic_blocks = pushed.blocks], new_bb |-> pushed.index]

\* Lines 95-109: drain the statements from the split index on out of the block,
\* take its terminator, and push the new block made of them.
cleave(b, location) ==
    LET bbs == b.basic_blocks
        current_bb_data == bbs[location.block]
        idx == location.statement_index
        new_bb_data ==
            BasicBlockData(
                SubSeq(current_bb_data.statements, idx + 1,
                       Len(current_bb_data.statements)),
                current_bb_data.terminator,
                current_bb_data.is_cleanup)
        drained == [bbs EXCEPT ![location.block] =
                        [@ EXCEPT !.statements = SubSeq(@, 1, idx),
                                  !.terminator = None]]
        pushed == push(drained, new_bb_data)
    IN  [body |-> [b EXCEPT !.basic_blocks = pushed.blocks], new_bb |-> pushed.index]

\* split_body without its early return for a Location at the start of a block.
split_body_no_early_return(b, location) ==
    LET c == cleave(b, location)
        si == source_info(c.body, location)
    IN  IF si.panic # ""
        THEN [body |-> c.body, ret |-> None, panic |-> si.panic]
        ELSE [body |-> [c.body EXCEPT
                   !.basic_blocks[location.block].terminator =
                       Some(Terminator("Goto", <<c.new_bb>>, None, si.value))],
              ret |-> Some(c.new_bb), panic |-> ""]

\* The whole of split_body: the body it leaves, the block it returns (None when it
\* does not return) and the panic that ended it ("" when it returns).
split_body(b, location) ==
    IF location.statement_index = 0
    THEN [body |-> b, ret |-> Some(location.block), panic |-> ""]
    ELSE LET c == cleave(b, location)
             si == source_info(c.body, location)
         IN  IF si.panic # ""
             THEN [body |-> c.body, ret |-> None, panic |-> si.panic]
             ELSE [body |-> [c.body EXCEPT
                        !.basic_blocks[location.block].terminator =
                            Some(Terminator("Goto", <<c.new_bb>>, None, si.value))],
                   ret |-> Some(c.new_bb), panic |-> ""]

(***************************************************************************)
(* Initial states.                                                         *)
(***************************************************************************)
\* No derive is under way.
NoBuild ==
    /\ structure = [attrs |-> <<>>, fields |-> {}]
    /\ attrs = <<>>
    /\ kind = <<>>
    /\ preamble = <<>>
    /\ implementation = <<>>
    /\ emitted = {}
    /\ referenced_fields = {}
    /\ build_pc = "done"
    /\ build_panic = ""

NoRun ==
    /\ liveness_results = <<>>
    /\ visit_order = <<>>
    /\ visit_index = 0
    /\ state = {}
    /\ block_map = <<>>
    /\ rpo = <<>>
    /\ exit_block = None
    /\ dominators = <<>>
    /\ locations = <<>>
    /\ last_generic_point = None
    /\ candidate_split_point = None
    /\ split_point = None
    /\ impl_fn_start = None
    /\ panic = ""
    /\ NoBuild

\* The pass is handed the body of a generic function: at most MaxBlocks blocks with
\* at most MaxStmts statements each and MaxBodyStmts in all, none of them a cleanup
\* block.
Init ==
    \E n \in 1..MaxBlocks :
    \E terms \in [0..(n - 1) -> Terminators(n)] :
    \E stmts \in {f \in [0..(n - 1) -> StmtLists(MaxStmts)] : SumLen(f, n) <= MaxBodyStmts} :
        /\ body = MkBody(n, terms, stmts, {}, GenericFnDecls)
        /\ entry_body = body
        /\ pc = "run_pass"
        /\ first_split_statement = None
        /\ NoRun

(***************************************************************************)
(* find_trampoline_point, lines 132-135: the liveness analysis, and the    *)
(* annotator's visit of its results, block by block in postorder.  Within  *)
(* a block the engine of a backward analysis calls visit_block_end, then   *)
(* the terminator hook, then the statement hooks from the last to the      *)
(* first.                                                                  *)
(***************************************************************************)
\* visit_index of the first hook (visit_block_end) of the first block of `order`.
FirstHook(b, order) ==
    IF order = <<>> THEN 0 ELSE Len(b.basic_blocks[Head(order)].statements) + 1

IterateToFixpoint ==
    /\ pc = "run_pass"
    /\ liveness_results' = MaybeLiveLocals(body)
    /\ block_map' = <<>>
    /\ visit_order' = postorder(body)
    /\ visit_index' = FirstHook(body, visit_order')
    /\ pc' = "visit"
    /\ UNCHANGED derive_vars
    /\ UNCHANGED <<body, entry_body, state, rpo, exit_block, dominators, locations,
                   last_generic_point, candidate_split_point, split_point,
                   first_split_statement, impl_fn_start, panic>>

\* The hook position after the hook at index i of the block at the head of the order.
NextHook(i) ==
    IF i = 0
    THEN /\ visit_order' = Tail(visit_order)
         /\ visit_index' = FirstHook(body, Tail(visit_order))
    ELSE /\ visit_order' = visit_order
         /\ visit_index' = i - 1

\* The outcome of a hook that ran check_for_pinch_point.
Annotated(r, i) ==
    IF r.panic # ""
    THEN /\ pc' = "panicked"
         /\ panic' = r.panic
         /\ UNCHANGED <<block_map, visit_order, visit_index>>
    ELSE /\ block_map' = r.map
         /\ NextHook(i)
         /\ UNCHANGED <<pc, panic>>

visit_block_end ==
    /\ pc = "visit"
    /\ visit_order # <<>>
    /\ LET block == Head(visit_order)
           block_data == body.basic_blocks[block]
       IN  /\ visit_index = Len(block_data.statements) + 1
           /\ state' = liveness_results[block]
           /\ block_map' = map_insert(block_map, block,
                                      new_empty(Len(block_data.statements) + 1))
           /\ visit_index' = Len(block_data.statements)
    /\ UNCHANGED derive_vars
    /\ UNCHANGED <<body, entry_body, pc, liveness_results, visit_order, rpo, exit_block,
                   dominators, locations, last_generic_point, candidate_split_point,
                   split_point, first_split_statement, impl_fn_start, panic>>

visit_terminator_after_primary_effect ==
    /\ pc = "visit"
    /\ visit_order # <<>>
    /\ LET block == Head(visit_order)
           block_data == body.basic_blocks[block]
           location == Location(block, Len(block_data.statements))
       IN  /\ visit_index = Len(block_data.statements)
           /\ LET terminator == unwrap(block_data.terminator)
              IN  /\ Annotated(check_for_pinch_point(
                                   block_map, body.local_decls,
                                   after_primary_effect(terminator, state), location),
                               visit_index)
                  /\ state' = terminator_effect(terminator, state)
    /\ UNCHANGED derive_vars
    /\ UNCHANGED <<body, entry_body, liveness_results, rpo, exit_block,
                   dominators, locations, last_generic_point, candidate_split_point,
                   split_point, first_split_statement, impl_fn_start>>

visit_statement_after_primary_effect ==
    /\ pc = "visit"
    /\ visit_order # <<>>
    /\ LET block == Head(visit_order)
           block_data == body.basic_blocks[block]
           location == Location(block, visit_index)
       IN  /\ visit_index < Len(block_data.statements)
           /\ LET statement == block_data.statements[visit_index + 1]
              IN  /\ Annotated(check_for_pinch_point(
                                   block_map, body.local_decls,
                                   after_primary_effect(statement, state), location),
                               visit_index)
                  /\ state' = statement_effect(statement, state)
    /\ UNCHANGED derive_vars
    /\ UNCHANGED <<body, entry_body, liveness_results, rpo, exit_block,
                   dominators, locations, last_generic_point, candidate_split_point,
                   split_point, first_split_statement, impl_fn_start>>

(***************************************************************************)
(* find_trampoline_point, lines 142-162: the exit Location, the Locations  *)
(* to scan and the dominators.                                             *)
(***************************************************************************)
\* Line 153: the exit Location made of the last element of the traversal.
exit_location(b, order) ==
    LET block == order[Len(order)]
        bbd == b.basic_blocks[block]
    IN  Location(block, Len(bbd.statements) + 1)

\* FindExit without the expect on the last element of the traversal: a traversal
\* that yields no block leaves no exit, nothing to scan, and the scan goes on.
FindExit_no_expect ==
    /\ pc = "visit"
    /\ visit_order = <<>>
    /\ LET order == reverse_postorder(body)
       IN  /\ rpo' = order
           /\ exit_block' = IF order = <<>> THEN None ELSE Some(exit_location(body, order))
           /\ locations' = flat_map_locations(body.basic_blocks, order)
           /\ dominators' = IF order = <<>> THEN <<>> ELSE Dominators(body)
           /\ pc' = "scan"
           /\ UNCHANGED panic
    /\ last_generic_point' = None
    /\ candidate_split_point' = None
    /\ UNCHANGED derive_vars
    /\ UNCHANGED <<body, entry_body, liveness_results, visit_order, visit_index, state,
                   block_map, split_point, first_split_statement, impl_fn_start>>

FindExit ==
    /\ pc = "visit"
    /\ visit_order = <<>>
    /\ LET order == reverse_postorder(body)
       IN  IF order = <<>>
           THEN /\ pc' = "panicked"
                /\ panic' = "MIR body with no blocks"
                /\ UNCHANGED <<rpo, exit_block, locations, dominators>>
           ELSE /\ rpo' = order
                /\ exit_block' = Some(exit_location(body, order))
                /\ locations' = flat_map_locations(body.basic_blocks, order)
                /\ dominators' = Dominators(body)
                /\ pc' = "scan"
                /\ UNCHANGED panic
    /\ last_generic_point' = None
    /\ candidate_split_point' = None
    /\ UNCHANGED derive_vars
    /\ UNCHANGED <<body, entry_body, liveness_results, visit_order, visit_index, state,
                   block_map, split_point, first_split_statement, impl_fn_start>>

(***************************************************************************)
(* find_trampoline_point, lines 163-187: one iteration of the scan.        *)
(***************************************************************************)
\* scan_step with the generic branch keeping the candidate it should invalidate
\* and taking the generic Location as the candidate when there is none.
scan_step_generic_candidate(map, doms, exit, last, candidate, location) ==
    LET g == has_live_generic(map, location)
    IN  IF g.panic # ""
        THEN [panic |-> g.panic, last |-> last, candidate |-> candidate]
        ELSE IF g.value
        THEN [panic |-> "", last |-> Some(location), candidate |-> Some(location)]
        ELSE IF is_some(last) /\ is_none(candidate)
        THEN IF dominates(location, exit, doms)
             THEN [panic |-> "", last |-> last, candidate |-> Some(location)]
             ELSE [panic |-> "", last |-> last, candidate |-> candidate]
        ELSE [panic |-> "", last |-> last, candidate |-> candidate]

\* scan_step without the dominance test on a candidate.
scan_step_no_dominance(map, doms, exit, last, candidate, location) ==
    LET g == has_live_generic(map, location)
    IN  IF g.panic # ""
        THEN [panic |-> g.panic, last |-> last, candidate |-> candidate]
        ELSE IF g.value
        THEN [panic |-> "", last |-> Some(location), candidate |-> None]
        ELSE IF is_some(last) /\ is_none(candidate)
        THEN [panic |-> "", last |-> last, candidate |-> Some(location)]
        ELSE [panic |-> "", last |-> last, candidate |-> candidate]

\* scan_step with the generic branch forgetting to invalidate the candidate.
scan_step_no_reset(map, doms, exit, last, candidate, location) ==
    LET g == has_live_generic(map, location)
    IN  IF g.panic # ""
        THEN [panic |-> g.panic, last |-> last, candidate |-> candidate]
        ELSE IF g.value
        THEN [panic |-> "", last |-> Some(location), candidate |-> candidate]
        ELSE IF is_some(last) /\ is_none(candidate)
        THEN IF dominates(location, exit, doms)
             THEN [panic |-> "", last |-> last, candidate |-> Some(location)]
             ELSE [panic |-> "", last |-> last, candidate |-> candidate]
        ELSE [panic |-> "", last |-> last, candidate |-> candidate]

\* scan_step taking a candidate without a generic point having been seen.
scan_step_no_last_generic(map, doms, exit, last, candidate, location) ==
    LET g == has_live_generic(map, location)
    IN  IF g.panic # ""
        THEN [panic |-> g.panic, last |-> last, candidate |-> candidate]
        ELSE IF g.value
        THEN [panic |-> "", last |-> Some(location), candidate |-> None]
        ELSE IF is_none(candidate)
        THEN IF dominates(location, exit, doms)
             THEN [panic |-> "", last |-> last, candidate |-> Some(location)]
             ELSE [panic |-> "", last |-> last, candidate |-> candidate]
        ELSE [panic |-> "", last |-> last, candidate |-> candidate]

\* scan_step taking every non-generic Location that dominates the exit as the
\* candidate, whether or not there is one already.
scan_step_latest_candidate(map, doms, exit, last, candidate, location) ==
    LET g == has_live_generic(map, location)
    IN  IF g.panic # ""
        THEN [panic |-> g.panic, last |-> last, candidate |-> candidate]
        ELSE IF g.value
        THEN [panic |-> "", last |-> Some(location), candidate |-> None]
        ELSE IF is_some(last)
        THEN IF dominates(location, exit, doms)
             THEN [panic |-> "", last |-> last, candidate |-> Some(location)]
             ELSE [panic |-> "", last |-> last, candidate |-> candidate]
        ELSE [panic |-> "", last |-> last, candidate |-> candidate]

\* The two Options after the loop body has run on `location`.
scan_step(map, doms, exit, last, candidate, location) ==
    LET g == has_live_generic(map, location)
    IN  IF g.panic # ""
        THEN [panic |-> g.panic, last |-> last, candidate |-> candidate]
        ELSE IF g.value
        THEN [panic |-> "", last |-> Some(location), candidate |-> None]
        ELSE IF is_some(last) /\ is_none(candidate)
        THEN IF dominates(location, exit, doms)
             THEN [panic |-> "", last |-> last, candidate |-> Some(location)]
             ELSE [panic |-> "", last |-> last, candidate |-> candidate]
        ELSE [panic |-> "", last |-> last, candidate |-> candidate]

ScanLocation ==
    /\ pc = "scan"
    /\ locations # <<>>
    /\ LET r == scan_step(block_map, dominators, unwrap(exit_block),
                          last_generic_point, candidate_split_point, Head(locations))
       IN  /\ last_generic_point' = r.last
           /\ candidate_split_point' = r.candidate
           /\ panic' = r.panic
           /\ pc' = IF r.panic # "" THEN "panicked" ELSE pc
           /\ locations' = IF r.panic # "" THEN locations ELSE Tail(locations)
    /\ UNCHANGED derive_vars
    /\ UNCHANGED <<body, entry_body, liveness_results, visit_order, visit_index, state,
                   block_map, rpo, exit_block, dominators, split_point,
                   first_split_statement, impl_fn_start>>

(***************************************************************************)
(* find_trampoline_point, lines 188-193, and run_pass, lines 69-76: the    *)
(* assertion on the pinch point, the return of the candidate, and the      *)
(* early return of run_pass when there is none.                            *)
(***************************************************************************)
\* Lines 188-192: the message of the failed assertion, or "".
assert_pinch_point(map, candidate) ==
    IF is_none(candidate) THEN ""
    ELSE LET g == has_live_generic(map, unwrap(candidate))
         IN  IF g.panic # "" THEN g.panic
             ELSE IF g.value
             THEN "assertion failed: !annotator.has_live_generic(&pinch_point)"
             ELSE ""

ReturnCandidate ==
    /\ pc = "scan"
    /\ locations = <<>>
    /\ LET failed == assert_pinch_point(block_map, candidate_split_point)
       IN  IF failed # ""
           THEN /\ pc' = "panicked"
                /\ panic' = failed
                /\ UNCHANGED <<split_point, first_split_statement>>
           ELSE /\ split_point' = candidate_split_point
                /\ first_split_statement' = candidate_split_point
                /\ pc' = IF is_some(candidate_split_point) THEN "split_body" ELSE "done"
                /\ UNCHANGED panic
    /\ UNCHANGED derive_vars
    /\ UNCHANGED <<body, entry_body, liveness_results, visit_order, visit_index, state,
                   block_map, rpo, exit_block, dominators, locations,
                   last_generic_point, candidate_split_point, impl_fn_start>>

(***************************************************************************)
(* run_pass, line 77: the call of split_body.                              *)
(***************************************************************************)
SplitBody ==
    /\ pc = "split_body"
    /\ LET r == split_body(body, unwrap(first_split_statement))
       IN  /\ body' = r.body
           /\ impl_fn_start' = r.ret
           /\ panic' = r.panic
           /\ pc' = IF r.panic # "" THEN "panicked" ELSE "done"
    /\ UNCHANGED derive_vars
    /\ UNCHANGED <<entry_body, liveness_results, visit_order, visit_index, state,
                   block_map, rpo, exit_block, dominators, locations,
                   last_generic_point, candidate_split_point, split_point,
                   first_split_statement>>

Next ==
    \/ IterateToFixpoint
    \/ visit_block_end
    \/ visit_terminator_after_primary_effect
    \/ visit_statement_after_primary_effect
    \/ FindExit
    \/ ScanLocation
    \/ ReturnCandidate
    \/ SplitBody

Spec == Init /\ [][Next]_vars

(***************************************************************************)
(* split_body on its own: called on any body with any Location of it.      *)
(***************************************************************************)
AllLocations(b) ==
    {Location(n, i) : n \in BlockIds(b), i \in 0..MaxSplitStmts} \cap
    {l \in [block : BlockIds(b), statement_index : 0..MaxSplitStmts] :
        l.statement_index <= Len(b.basic_blocks[l.block].statements)}

InitSplit ==
    \E n \in 1..MaxSplitBlocks :
    \E terms \in [0..(n - 1) -> Terminators(n)] :
    \E stmts \in [0..(n - 1) -> StmtLists(MaxSplitStmts)] :
    \E cleanup \in SUBSET (0..(n - 1)) :
        /\ body = MkBody(n, terms, stmts, cleanup, GenericFnDecls)
        /\ entry_body = body
        /\ pc = "split_body"
        /\ \E l \in AllLocations(body) : first_split_statement = Some(l)
        /\ NoRun

NextSplit == SplitBody

SpecSplit == InitSplit /\ [][NextSplit]_vars

(***************************************************************************)
(* Vocabulary of the properties.                                           *)
(***************************************************************************)
\* The annotation of a Location: its bit in the annotator's block_map.
Classified(l) ==
    /\ l.block \in DOMAIN block_map
    /\ l.statement_index \in block_map[l.block].elems

\* find_trampoline_point has returned a candidate.
Returned == is_some(split_point)

SuccSet(bbs, n) == SeqToSet(successors(bbs[n]))

\* The blocks reachable from the blocks of S along CFG edges without entering a
\* block of `avoid` (the blocks of S themselves included).
RECURSIVE ReachAvoiding(_, _, _)
ReachAvoiding(bbs, S, avoid) ==
    LET next == S \cup (UNION {SuccSet(bbs, n) : n \in S} \ avoid)
    IN  IF next = S THEN S ELSE ReachAvoiding(bbs, next, avoid)

\* Every path from the entry block to n passes through d.
EveryPathPassesThrough(bbs, d, n) ==
    \/ d = n
    \/ d = START_BLOCK
    \/ n \notin ReachAvoiding(bbs, {START_BLOCK}, {d})

\* The scan order of find_trampoline_point: the Locations of the blocks in
\* reverse postorder, each block's from its first statement to its terminator.
ScanOrder == flat_map_locations(entry_body.basic_blocks, reverse_postorder(entry_body))

PositionIn(seq, x) == CHOOSE i \in 1..Len(seq) : seq[i] = x

\* The Locations an execution standing at l can come to: the rest of l's block,
\* and every Location of every block reachable from a successor of l's block.
ReachableLocations(bbs, l) ==
    LET after == ReachAvoiding(bbs, SuccSet(bbs, l.block), {})
    IN  {Location(l.block, i) : i \in l.statement_index..Len(bbs[l.block].statements)}
        \cup UNION {{Location(n, i) : i \in 0..Len(bbs[n].statements)} : n \in after}

(***************************************************************************)
(* C1.  Whenever find_trampoline_point returns a candidate, the candidate  *)
(* is annotated non-generic, and the assertion on the pinch point has not  *)
(* failed.                                                                 *)
(***************************************************************************)
C1_CandidateNonGeneric ==
    /\ Returned => ~Classified(unwrap(split_point))
    /\ panic # "assertion failed: !annotator.has_live_generic(&pinch_point)"

\* A candidate was returned for a body in which some Location is generic.
C1_Witness ==
    /\ Returned
    /\ is_some(last_generic_point)
    /\ Classified(unwrap(last_generic_point))

(***************************************************************************)
(* C2.  Whenever find_trampoline_point returns a candidate, every path     *)
(* from the entry block to the exit block (the last block of the reverse   *)
(* postorder) passes through the candidate's block.                        *)
(***************************************************************************)
C2_CandidateDominatesExit ==
    Returned =>
        EveryPathPassesThrough(entry_body.basic_blocks, unwrap(split_point).block,
                               rpo[Len(rpo)])

\* A candidate was returned after the scan had turned down a non-generic Location,
\* lying after the last generic point, some path to the exit block goes around.
C2_Witness ==
    /\ Returned
    /\ \E i \in 1..Len(ScanOrder) :
        /\ i > PositionIn(ScanOrder, unwrap(last_generic_point))
        /\ i < PositionIn(ScanOrder, unwrap(split_point))
        /\ ~Classified(ScanOrder[i])
        /\ ~EveryPathPassesThrough(entry_body.basic_blocks, ScanOrder[i].block,
                                   rpo[Len(rpo)])

(***************************************************************************)
(* C3.  Whenever find_trampoline_point returns a candidate, every Location *)
(* after the candidate in the scan order is annotated non-generic (the     *)
(* first alternative of the claim, which therefore always holds).          *)
(***************************************************************************)
C3_NoGenericAfterCandidate ==
    Returned =>
        \A j \in 1..Len(ScanOrder) :
            j > PositionIn(ScanOrder, unwrap(split_point)) => ~Classified(ScanOrder[j])

\* A candidate was returned that is not the first candidate of the scan: an earlier
\* non-generic Location that dominates the exit lies before the last generic point.
C3_Witness ==
    /\ Returned
    /\ \E i \in 1..Len(ScanOrder) :
        /\ i < PositionIn(ScanOrder, unwrap(last_generic_point))
        /\ ~Classified(ScanOrder[i])
        /\ \E k \in 1..(i - 1) : Classified(ScanOrder[k])
        /\ dominates(ScanOrder[i], unwrap(exit_block), dominators)
    /\ PositionIn(ScanOrder, unwrap(split_point)) < Len(ScanOrder)

(***************************************************************************)
(* C4.  Whenever find_trampoline_point returns a candidate, no Location    *)
(* annotated generic is reachable from the candidate along CFG edges, back *)
(* edges included.                                                         *)
(***************************************************************************)
C4_NoGenericReachable ==
    Returned =>
        \A l \in ReachableLocations(entry_body.basic_blocks, unwrap(split_point)) :
            ~Classified(l)

\* The annotation visit of find_trampoline_point is over.
AnnotationComplete == pc \in {"scan", "split_body", "done", "panicked"}

\* No Location of the body is annotated generic.
NoGenericLocation == \A b \in DOMAIN block_map : block_map[b].elems = {}

(***************************************************************************)
(* C5.  Once the annotation of a body is complete and no Location of it is *)
(* annotated generic: no candidate is found or returned, split_body is not *)
(* called, the pass does not panic, and the body is the one the pass was   *)
(* handed.                                                                 *)
(***************************************************************************)
C5_NoGenericNoOp ==
    (AnnotationComplete /\ NoGenericLocation) =>
        /\ is_none(candidate_split_point)
        /\ is_none(split_point)
        /\ pc \notin {"split_body", "panicked"}
        /\ is_none(impl_fn_start)
        /\ body = entry_body

\* run_pass has returned for a body of several reachable blocks, with statements,
\* none of whose Locations is generic.
C5_Witness ==
    /\ pc = "done"
    /\ NoGenericLocation
    /\ Len(rpo) > 1
    /\ \E b \in DOMAIN block_map : block_map[b].domain_size > 1

\* split_body was called and has ended, by a return or by a panic.
SplitCalled == pc # "split_body" /\ is_some(first_split_statement)

\* The Location split_body was called with.
SplitLocation == unwrap(first_split_statement)

\* The index of the block split_body appends.
NewBlock == NumBlocks(entry_body)

(***************************************************************************)
(* C7.  After split_body was called with a Location L of the body: it has  *)
(* returned; if L's index is 0 the number of blocks is unchanged; otherwise*)
(* there is exactly one block more, and the statements of the truncated    *)
(* block and of the new block number as many as the original block's.      *)
(***************************************************************************)
C7_BlockCount ==
    SplitCalled =>
        IF SplitLocation.statement_index = 0
        THEN panic = "" /\ NumBlocks(body) = NumBlocks(entry_body)
        ELSE /\ panic = ""
             /\ NumBlocks(body) = NumBlocks(entry_body) + 1
             /\ Len(body.basic_blocks[SplitLocation.block].statements)
                  + Len(body.basic_blocks[NewBlock].statements)
                = Len(entry_body.basic_blocks[SplitLocation.block].statements)

(***************************************************************************)
(* C8.  After split_body was called with a Location whose index is not 0:  *)
(* it has returned, the appended block's is_cleanup flag is the original   *)
(* block's, and the truncated block's flag is unchanged.                   *)
(***************************************************************************)
C8_CleanupFlag ==
    (SplitCalled /\ SplitLocation.statement_index > 0) =>
        /\ panic = ""
        /\ NewBlock \in BlockIds(body)
        /\ body.basic_blocks[NewBlock].is_cleanup
             = entry_body.basic_blocks[SplitLocation.block].is_cleanup
        /\ body.basic_blocks[SplitLocation.block].is_cleanup
             = entry_body.basic_blocks[SplitLocation.block].is_cleanup

(***************************************************************************)
(* C9.  After split_body was called with a Location whose index is not 0:  *)
(* it has returned the appended block; the original block holds its former *)
(* statements before the index, in order, and a Goto to the new block; the *)
(* new block holds the former statements from the index on, in order, and  *)
(* the original block's former terminator.                                 *)
(***************************************************************************)
C9_CleavedBlocks ==
    (SplitCalled /\ SplitLocation.statement_index > 0) =>
        LET old == entry_body.basic_blocks[SplitLocation.block]
            idx == SplitLocation.statement_index
        IN  /\ panic = ""
            /\ impl_fn_start = Some(NewBlock)
            /\ DOMAIN body.basic_blocks = 0..NewBlock
            /\ body.basic_blocks[SplitLocation.block].statements
                 = SubSeq(old.statements, 1, idx)
            /\ is_some(body.basic_blocks[SplitLocation.block].terminator)
            /\ unwrap(body.basic_blocks[SplitLocation.block].terminator).kind = "Goto"
            /\ unwrap(body.basic_blocks[SplitLocation.block].terminator).targets
                 = <<NewBlock>>
            /\ body.basic_blocks[NewBlock].statements
                 = SubSeq(old.statements, idx + 1, Len(old.statements))
            /\ body.basic_blocks[NewBlock].terminator = old.terminator

(***************************************************************************)
(* C10.  After split_body was called with a Location whose index is 0: it  *)
(* has returned the Location's block, and the body is the one it was       *)
(* called with.                                                            *)
(***************************************************************************)
C10_SplitAtBlockStart ==
    (SplitCalled /\ SplitLocation.statement_index = 0) =>
        /\ pc = "done"
        /\ panic = ""
        /\ impl_fn_start = Some(SplitLocation.block)
        /\ body = entry_body

\* split_body has returned for the first Location of a block, other than the entry
\* block, that holds statements.
C10_Witness ==
    /\ pc = "done"
    /\ is_some(impl_fn_start)
    /\ is_some(first_split_statement)
    /\ SplitLocation.statement_index = 0
    /\ SplitLocation.block # START_BLOCK
    /\ Len(body.basic_blocks[SplitLocation.block].statements) > 1

(***************************************************************************)
(* The pass on the linear bodies bb0 -> bb1 -> bb2, bb1 holding three      *)
(* statements and bb2 returning.                                           *)
(***************************************************************************)
LinearTerms ==
    [b \in 0..2 |->
        IF b < 2 THEN [kind |-> "Goto", targets |-> <<b + 1>>, operand |-> None]
                 ELSE [kind |-> "Return", targets |-> <<>>, operand |-> None]]

InitLinear ==
    \E stmts \in {f \in [0..2 -> StmtLists(3)] :
                    Len(f[0]) <= 1 /\ Len(f[1]) = 3 /\ Len(f[2]) <= 1} :
        /\ body = MkBody(3, LinearTerms, stmts, {}, GenericFnDecls)
        /\ entry_body = body
        /\ pc = "run_pass"
        /\ first_split_statement = None
        /\ NoRun

SpecLinear == InitLinear /\ [][Next]_vars

\* run_pass has ended, by a return or by a panic.
PassEnded == pc \in {"done", "panicked"}

\* The Locations of the body the pass was handed that are annotated generic.
GenericLocations ==
    {l \in UNION {{Location(b, i) : i \in 0..Len(entry_body.basic_blocks[b].statements)} :
                    b \in BlockIds(entry_body)} : Classified(l)}

(***************************************************************************)
(* C11.  For a body bb0 -> bb1 -> bb2 with bb1 = [s0, s1, s2] whose only   *)
(* generic Location is (bb1, 0), once the pass has ended: the scan left    *)
(* last_generic_point = (bb1, 1st statement) and the candidate (bb1, 1),   *)
(* the pass has returned, a new block bb3 holds [s1, s2] and bb1's         *)
(* original terminator, and bb1 holds [s0] and a Goto to bb3.              *)
(***************************************************************************)
C11_LinearScenario ==
    (PassEnded /\ GenericLocations = {Location(1, 0)}) =>
        LET old == entry_body.basic_blocks[1]
        IN  /\ last_generic_point = Some(Location(1, 0))
            /\ candidate_split_point = Some(Location(1, 1))
            /\ panic = ""
            /\ DOMAIN body.basic_blocks = 0..3
            /\ body.basic_blocks[3].statements = SubSeq(old.statements, 2, 3)
            /\ body.basic_blocks[3].terminator = old.terminator
            /\ body.basic_blocks[1].statements = SubSeq(old.statements, 1, 1)
            /\ is_some(body.basic_blocks[1].terminator)
            /\ unwrap(body.basic_blocks[1].terminator).kind = "Goto"
            /\ unwrap(body.basic_blocks[1].terminator).targets = <<3>>

(***************************************************************************)
(* The pass on the diamonds bb0 -> {bb1, bb2} -> bb3: bb0 ends in a        *)
(* SwitchInt over the two arms (in either order), each arm ends in a Goto  *)
(* or in a Call reading a local, and bb3 returns.                          *)
(***************************************************************************)
Operands == {None} \cup {Some(l) : l \in Locals}

ArmTerminators ==
    {[kind |-> "Goto", targets |-> <<3>>, operand |-> None]}
    \cup {[kind |-> "Call", targets |-> <<3>>, operand |-> Some(l)] : l \in Locals}

DiamondTerms ==
    {f \in [0..3 -> [kind : {"SwitchInt", "Goto", "Call", "Return"},
                     targets : {<<1, 2>>, <<2, 1>>, <<3>>, <<>>},
                     operand : Operands]] :
        /\ f[0].kind = "SwitchInt" /\ f[0].targets \in {<<1, 2>>, <<2, 1>>}
        /\ f[1] \in ArmTerminators
        /\ f[2] \in ArmTerminators
        /\ f[3] = [kind |-> "Return", targets |-> <<>>, operand |-> None]}

InitDiamond ==
    \E terms \in DiamondTerms :
    \E stmts \in {f \in [0..3 -> StmtLists(2)] :
                    Len(f[0]) <= 1 /\ Len(f[1]) <= 1 /\ Len(f[2]) <= 1} :
        /\ body = MkBody(4, terms, stmts, {}, GenericFnDecls)
        /\ entry_body = body
        /\ pc = "run_pass"
        /\ first_split_statement = None
        /\ NoRun

SpecDiamond == InitDiamond /\ [][Next]_vars

\* The Genericness lattice {No, Maybe} of the propagator: the value of a Location,
\* and the join of two incoming values.
Genericness(l) == IF Classified(l) THEN "Maybe" ELSE "No"

Join(a, b) == IF a # b THEN "Maybe" ELSE a

\* The tail of a block that holds statements: the Location of its last statement.
BlockTail(b) == Location(b, Len(entry_body.basic_blocks[b].statements) - 1)

\* The diamond's arm bb1 has a generic tail and its arm bb2 a non-generic one.
DiamondScenario ==
    /\ Len(entry_body.basic_blocks[1].statements) > 0
    /\ Len(entry_body.basic_blocks[2].statements) > 0
    /\ Classified(BlockTail(1))
    /\ ~Classified(BlockTail(2))

\* The Locations of the blocks of B in the body the pass was handed.
LocationsOf(B) ==
    UNION {{Location(b, i) : i \in 0..Len(entry_body.basic_blocks[b].statements)} : b \in B}

(***************************************************************************)
(* C12.  For a diamond bb0 -> {bb1, bb2} -> bb3 in which bb1's tail is     *)
(* generic and bb2's tail is non-generic, once find_trampoline_point has   *)
(* returned: the join of the two tails' Genericness at bb3's entry is      *)
(* Maybe, and the split point returned is neither (bb3, 0) nor a Location  *)
(* of bb0, bb1 or bb2.                                                     *)
(***************************************************************************)
C12_DiamondNoCandidateAtJoin ==
    (PassEnded /\ DiamondScenario) =>
        /\ Join(Genericness(BlockTail(1)), Genericness(BlockTail(2))) = "Maybe"
        /\ is_some(split_point) =>
              unwrap(split_point) \notin ({Location(3, 0)} \cup LocationsOf({0, 1, 2}))

\* The statements of a block followed by its terminator.
Items(bbd) == bbd.statements \o bbd.terminator

\* The FlowState the engine holds when, walking a block backwards from the state
\* `entry` at its end, it arrives at the item at index i (the items after it applied).
RECURSIVE ArrivingState(_, _, _)
ArrivingState(items, i, entry) ==
    IF i >= Len(items) - 1 THEN entry
    ELSE primary_effect(items[i + 2], ArrivingState(items, i + 1, entry))

\* The liveness set the engine reports to the annotator for the Location (b, i) of
\* the body the pass was handed.
ReportedState(b, i) ==
    LET items == Items(entry_body.basic_blocks[b])
    IN  after_primary_effect(items[i + 1], ArrivingState(items, i, liveness_results[b]))

\* Some local of the set has a type that mentions a type parameter or needs
\* substitution.
HasGenericLocal(live) ==
    \E l \in live : (entry_body.local_decls[l] \cap (HAS_TY_PARAM \cup NEEDS_SUBST)) # {}

ReachableBlocks == SeqToSet(postorder(entry_body))

(***************************************************************************)
(* C13.  Once the annotation visit is over, for every Location of every    *)
(* block reachable from the entry block: the Location is annotated generic *)
(* if and only if some local of the liveness set reported for it has a     *)
(* type that mentions a type parameter or needs substitution.              *)
(***************************************************************************)
C13_ClassifierIff ==
    AnnotationComplete =>
        \A l \in LocationsOf(ReachableBlocks) :
            Classified(l) <=> HasGenericLocal(ReportedState(l.block, l.statement_index))

\* The annotation is over for a body of several reachable blocks in which some
\* Location is generic and some Location with a live local is not.
C13_Witness ==
    /\ AnnotationComplete
    /\ Cardinality(ReachableBlocks) > 1
    /\ \E l \in LocationsOf(ReachableBlocks) : Classified(l)
    /\ \E l \in LocationsOf(ReachableBlocks) :
          /\ ~Classified(l)
          /\ ReportedState(l.block, l.statement_index) # {}

\* find_trampoline_point has returned (and run_pass gone on with its result).
FindReturned == pc \in {"split_body", "done"} \/ is_some(first_split_statement)

\* The positions in the scan order of the Locations annotated generic.
GenericPositions == {i \in 1..Len(ScanOrder) : Classified(ScanOrder[i])}

Max(S) == CHOOSE x \in S : \A y \in S : y <= x
Min(S) == CHOOSE x \in S : \A y \in S : x <= y

\* The positions, after the last generic one, of the Locations every path from the
\* entry block to the exit block passes through the block of.
PinchPositions ==
    {i \in 1..Len(ScanOrder) :
        /\ i > Max(GenericPositions)
        /\ EveryPathPassesThrough(entry_body.basic_blocks, ScanOrder[i].block,
                                  ScanOrder[Len(ScanOrder)].block)}

\* The result the scan order characterises.
ExpectedSplitPoint ==
    IF GenericPositions = {} THEN None
    ELSE IF PinchPositions = {} THEN None
    ELSE Some(ScanOrder[Min(PinchPositions)])

(***************************************************************************)
(* C14.  Once find_trampoline_point has returned, its result is None if no *)
(* Location is annotated generic; otherwise it is the first Location after *)
(* the last generic Location, in the scan order, whose block dominates the *)
(* exit block, and None if there is no such Location.                      *)
(***************************************************************************)
C14_ResultCharacterised == FindReturned => split_point = ExpectedSplitPoint

\* find_trampoline_point has returned a Location that is neither the one right
\* after the last generic Location nor the last one of the scan order.
C14_Witness ==
    /\ FindReturned
    /\ is_some(split_point)
    /\ PositionIn(ScanOrder, unwrap(split_point)) > Max(GenericPositions) + 1
    /\ PositionIn(ScanOrder, unwrap(split_point)) < Len(ScanOrder)

\* The Location is a statement's or the terminator's of a block of the body.
ValidLocation(b, l) ==
    /\ l.block \in BlockIds(b)
    /\ l.statement_index \in 0..Len(b.basic_blocks[l.block].statements)

(***************************************************************************)
(* C15.  Once find_trampoline_point has chosen its exit point, it is the   *)
(* last block of the reverse postorder paired with the number of           *)
(* statements of that block (the Location of its terminator), a Location   *)
(* of the body.                                                            *)
(***************************************************************************)
C15_ExitPoint ==
    is_some(exit_block) =>
        LET last_block == reverse_postorder(entry_body)[Len(reverse_postorder(entry_body))]
        IN  /\ unwrap(exit_block) =
                 Location(last_block, Len(entry_body.basic_blocks[last_block].statements))
            /\ ValidLocation(entry_body, unwrap(exit_block))

\* The locals a statement or terminator reads, and the ones it writes.
Reads(x) == IF x.kind = "Assign" THEN {x.rvalue} ELSE SeqToSet(x.operand)
Writes(x) == IF x.kind = "Assign" THEN {x.place} ELSE {}

ItemAt(bbs, q) == Items(bbs[q.block])[q.statement_index + 1]

\* The program points execution can be at right after the item at q has executed.
PointsAfter(bbs, q) ==
    IF q.statement_index < Len(bbs[q.block].statements)
    THEN {Location(q.block, q.statement_index + 1)}
    ELSE {Location(s, 0) : s \in SuccSet(bbs, q.block)}

\* The program points some path starting at a point of S comes to before the local
\* l has been written on it.
RECURSIVE PointsBeforeWrite(_, _, _)
PointsBeforeWrite(bbs, l, S) ==
    LET next == S \cup UNION {PointsAfter(bbs, q) : q \in {x \in S : l \notin Writes(ItemAt(bbs, x))}}
    IN  IF next = S THEN S ELSE PointsBeforeWrite(bbs, l, next)

\* The locals that may be read on some path starting at a point of S.
MayBeRead(bbs, S) ==
    {l \in Locals : \E q \in PointsBeforeWrite(bbs, l, S) : l \in Reads(ItemAt(bbs, q))}

\* The locals live after the statement or terminator at l executes, and before.
LiveAfter(l) == MayBeRead(entry_body.basic_blocks, PointsAfter(entry_body.basic_blocks, l))
LiveBefore(l) == MayBeRead(entry_body.basic_blocks, {l})

C17_SplitFrame ==
    is_some(first_split_statement) =>
        /\ BlockIds(entry_body) \subseteq BlockIds(body)
        /\ NumBlocks(body) <= NumBlocks(entry_body) + 1
        /\ \A b \in BlockIds(entry_body) \ {SplitLocation.block} :
              body.basic_blocks[b] = entry_body.basic_blocks[b]

\* split_body has cleaved the first of two blocks, the other one being the target
\* of an edge.
C17_Witness ==
    /\ SplitCalled
    /\ SplitLocation.statement_index > 0
    /\ SplitLocation.block = 0
    /\ NumBlocks(entry_body) = 2
    /\ NumBlocks(body) = 3
    /\ \E b \in BlockIds(entry_body) : 1 \in SuccSet(entry_body.basic_blocks, b)
    /\ Len(entry_body.basic_blocks[1].statements) > 0

\* The length, in blocks entered, of the paths compared.
MaxWalk == 3

\* The terminator of block b of the body bbs was put there by split_body.
InsertedGoto(bbs, b) ==
    /\ is_some(first_split_statement)
    /\ b = SplitLocation.block
    /\ bbs = body.basic_blocks
    /\ NumBlocks(body) > NumBlocks(entry_body)
    /\ is_some(bbs[b].terminator)

\* What a path ends with when it comes to the end of a block that has no terminator.
NoTerminator(b) == <<b>>

SourceInfos(ss) == [i \in 1..Len(ss) |-> ss[i].source_info]

\* The paths through the CFG bbs from the start of block b that execute at most k
\* terminators other than the Goto split_body inserted: each is the sequence of the
\* statements and terminators it executes, named by their SourceInfo.  A block
\* without a terminator ends the path there.
RECURSIVE Paths(_, _, _)
Paths(bbs, b, k) ==
    LET stmts == SourceInfos(bbs[b].statements)
    IN  IF is_none(bbs[b].terminator) THEN {stmts \o <<NoTerminator(b)>>}
        ELSE IF InsertedGoto(bbs, b)
        THEN {stmts \o p : p \in Paths(bbs, unwrap(bbs[b].terminator).targets[1], k)}
        ELSE LET t == unwrap(bbs[b].terminator)
                 here == stmts \o <<t.source_info>>
             IN  IF k = 1 \/ t.targets = <<>> THEN {here}
                 ELSE UNION {{here \o p : p \in Paths(bbs, s, k - 1)} :
                                s \in SeqToSet(t.targets)}

(***************************************************************************)
(* C18.  Once split_body has ended, the paths through the body from any    *)
(* block it had before are the paths of the original body from that block: *)
(* the same statements and the same original terminators in the same       *)
(* order, the inserted Goto apart.                                         *)
(***************************************************************************)
C18_ControlFlowPreserved ==
    SplitCalled =>
        \A b \in BlockIds(entry_body) :
            Paths(body.basic_blocks, b, MaxWalk) = Paths(entry_body.basic_blocks, b, MaxWalk)

(***************************************************************************)
(* C19.  Once split_body has ended for a Location whose index is not 0: it *)
(* has returned, no read of a statement's or terminator's source info      *)
(* having found it missing, and every block of the body has a terminator.  *)
(***************************************************************************)
C19_SplitCompletes ==
    (SplitCalled /\ SplitLocation.statement_index > 0) =>
        /\ pc = "done"
        /\ panic = ""
        /\ \A b \in BlockIds(body) : is_some(body.basic_blocks[b].terminator)

\* The panics of a lookup of a Location's bit by the Selector.
QueryPanics ==
    {"has_live_generic: no entry for block", "BitSet::contains: index out of domain"}

(***************************************************************************)
(* C20.  The Locations the Selector queries are the Locations of the       *)
(* blocks in reverse postorder, offsets 0 to the number of statements;     *)
(* each of them belongs to a block the annotation visit has given a bitset *)
(* and has an offset below the bitset's size, so no query of a bit fails.  *)
(***************************************************************************)
C20_QueriedAfterPopulated ==
    /\ panic \notin QueryPanics
    /\ pc = "scan" =>
          /\ \E k \in 1..(Len(ScanOrder) + 1) :
                locations = SubSeq(ScanOrder, k, Len(ScanOrder))
          /\ \A i \in 1..Len(locations) :
                /\ contains_key(block_map, locations[i].block)
                /\ locations[i].statement_index < block_map[locations[i].block].domain_size
                /\ block_map[locations[i].block].domain_size
                     = Len(entry_body.basic_blocks[locations[i].block].statements) + 1

\* The Selector has queried every Location of a body of several reachable blocks,
\* with statements, that also has a block the annotation visit never came to.
C20_Witness ==
    /\ FindReturned
    /\ Len(rpo) > 1
    /\ \E b \in BlockIds(entry_body) : ~contains_key(block_map, b)
    /\ \E b \in DOMAIN block_map : block_map[b].domain_size > 2

(***************************************************************************)
(* C21.  In every step of the pass: a block's bitset, once installed, is   *)
(* never removed, resized or replaced and never loses a bit; the only bit  *)
(* a step adds is the bit of the Location whose hook is running, in the    *)
(* block being visited; visit_block_end installs the bitset of a block     *)
(* that has none yet; and once the annotation visit is over (the Selector  *)
(* scanning, split_body running) block_map does not change.                *)
(***************************************************************************)
C21_BitsImmutable ==
    [][/\ \A b \in DOMAIN block_map :
            /\ b \in DOMAIN block_map'
            /\ block_map'[b].domain_size = block_map[b].domain_size
            /\ block_map[b].elems \subseteq block_map'[b].elems
            /\ block_map'[b].elems # block_map[b].elems =>
                  /\ pc = "visit"
                  /\ b = Head(visit_order)
                  /\ block_map'[b].elems = block_map[b].elems \cup {visit_index}
                  /\ visit_index \notin block_map[b].elems
       /\ \A b \in DOMAIN block_map' \ DOMAIN block_map :
            /\ pc = "visit"
            /\ b = Head(visit_order)
            /\ block_map'[b].elems = {}
       /\ AnnotationComplete => block_map' = block_map]_vars

\* The pass has ended for a body with a loop, of several reachable blocks, one of
\* which has two Locations marked generic.
C21_Witness ==
    /\ PassEnded
    /\ Len(rpo) > 1
    /\ \E b \in DOMAIN block_map : Cardinality(block_map[b].elems) > 1
    /\ \E b \in DOMAIN block_map :
          b \in ReachAvoiding(entry_body.basic_blocks, SuccSet(entry_body.basic_blocks, b), {})

(***************************************************************************)
(* The pass on any body of at most two blocks, the body with no blocks     *)
(* included.                                                               *)
(***************************************************************************)
InitAny ==
    \E n \in 0..2 :
    \E terms \in [0..(n - 1) -> Terminators(n)] :
    \E stmts \in [0..(n - 1) -> StmtLists(1)] :
        /\ body = MkBody(n, terms, stmts, {}, GenericFnDecls)
        /\ entry_body = body
        /\ pc = "run_pass"
        /\ first_split_statement = None
        /\ NoRun

SpecAny == InitAny /\ [][Next]_vars

MaxAttrs == 3
MaxLen == 5

\* The characters of the format strings: the three that build_format tests for and
\* one letter.
Chars == {"{", "}", ":", "x"}

\* What `*it.peek().unwrap_or(&'\0')` yields at the end of the string.
NUL == "\\0"

Strings(n) == UNION {[1..k -> Chars] : k \in 0..n}

\* Peekable::peek at position i of the input (the next character it.next() yields).
peek(input, i) == IF i <= Len(input) THEN input[i] ELSE NUL

\* eat_argument, lines 508-518: the loop that collects the argument.  The result is
\* the collected string and the position of the iterator after the loop.
RECURSIVE eat_argument_name(_, _, _)
eat_argument_name(input, i, result) ==
    IF i > Len(input)
    THEN [result |-> result, it |-> i]
    ELSE LET pushed == Append(result, input[i])
             next == peek(input, i + 1)
         IN  IF next = "}" THEN [result |-> pushed, it |-> i + 1]
             ELSE IF next = ":" THEN [result |-> pushed, it |-> i + 2]
             ELSE eat_argument_name(input, i + 1, pushed)

\* eat_argument, lines 520-526: eat until (and including) the matching '}'.  The
\* result is the position after it, or 0 when the string ends first (the expect
\* of line 522 fails).
RECURSIVE eat_closing_brace(_, _)
eat_closing_brace(input, i) ==
    IF i > Len(input) THEN 0
    ELSE IF input[i] = "}" THEN i + 1
    ELSE eat_closing_brace(input, i + 1)

eat_argument(input, i) ==
    LET name == eat_argument_name(input, i, <<>>)
        it == eat_closing_brace(input, name.it)
    IN  IF it = 0
        THEN [result |-> name.result, it |-> Len(input) + 1,
              panic |-> "Fell off end of format string without finding closing brace"]
        ELSE [result |-> name.result, it |-> it, panic |-> ""]

\* build_format, lines 493-533: the scan of the format string from position i on.
RECURSIVE scan_format(_, _, _)
scan_format(input, i, referenced) ==
    IF i > Len(input)
    THEN [referenced_fields |-> referenced, panic |-> ""]
    ELSE IF input[i] = "{" /\ peek(input, i + 1) # "{"
         THEN LET referenced_field == eat_argument(input, i + 1)
              IN  IF referenced_field.panic # ""
                  THEN [referenced_fields |-> referenced, panic |-> referenced_field.panic]
                  ELSE scan_format(input, referenced_field.it,
                                   referenced \cup {referenced_field.result})
         ELSE scan_format(input, i + 1, referenced)

\* format_ident!("{}", field), line 538: Ident::new panics unless the string is an
\* identifier.
is_ident(field) == field # <<>> /\ \A k \in 1..Len(field) : field[k] = "x"

Diagnostic(msg, field, span) == [msg |-> msg, field |-> field, span |-> span]

\* The tokens of `format!(#input #(,#args)*)`, lines 559-561.
FormatTokens(input, args) == [call |-> "format!", format |-> input, args |-> args]

\* quote! {}
NoTokens == [call |-> "", format |-> <<>>, args |-> {}]

\* build_format: its possible outcomes.  The referenced fields are a HashSet, so
\* the arguments are generated in any order; when one of them is no identifier,
\* any of the others may have been done (and diagnosed) before the panic.
build_format(fields, input, span) ==
    LET scan == scan_format(input, 1, {})
        idents == {f \in scan.referenced_fields : is_ident(f)}
        missing(done) == {Diagnostic("no field on this type", f, span) : f \in done \ fields}
    IN  IF scan.panic # ""
        THEN {[tokens |-> NoTokens, referenced_fields |-> {}, scanned |-> FALSE,
               emitted |-> {}, panic |-> scan.panic]}
        ELSE IF idents # scan.referenced_fields
        THEN {[tokens |-> NoTokens, referenced_fields |-> scan.referenced_fields,
               scanned |-> TRUE, emitted |-> missing(done),
               panic |-> "not a valid Ident"] : done \in SUBSET idents}
        ELSE {[tokens |-> FormatTokens(input, scan.referenced_fields),
               referenced_fields |-> scan.referenced_fields, scanned |-> TRUE,
               emitted |-> missing(idents), panic |-> ""]}

DiagnosticId(id, tokens) == [id |-> id, tokens |-> tokens]

SessionDeriveBuilderError(k, span) == [kind |-> k, span |-> span]

Ok(x) == [ok |-> TRUE, value |-> x]
Err(e) == [ok |-> FALSE, value |-> e]

\* set_kind_once, lines 291-305.
set_kind_once(self_kind, new_kind, span) ==
    IF is_none(self_kind)
    THEN [kind |-> Some(new_kind), result |-> Ok(NoTokens)]
    ELSE [kind |-> self_kind,
          result |-> Err(SessionDeriveBuilderError("IdMultiplyProvided", span))]

\* SessionDeriveBuilderError::to_tokens, lines 113-125: the tokens, and the
\* Diagnostic it emits.
to_tokens(e) ==
    IF e.kind = "SynError"
    THEN [tokens |-> [call |-> "compile_error!", format |-> <<>>, args |-> {}],
          emitted |-> {}]
    ELSE [tokens |-> NoTokens,
          emitted |-> {Diagnostic(IF e.kind = "IdMultiplyProvided"
                                  THEN "Diagnostic ID multiply provided"
                                  ELSE "Diagnostic ID not provided", <<>>, e.span)}]

\* An attribute: what parse_meta makes of it, the last segment of its path, the
\* value of its string literal, and its span (its position on the struct).
Attribute(meta, name, value, span) ==
    [meta |-> meta, name |-> name, value |-> value, span |-> span]

\* generate_structure_code, lines 255-288, on one attribute, after build_format
\* had the outcome f: the kind it leaves and its result, or the panic.
generate_structure_code(self_kind, attr, f) ==
    LET Returns(k, r) == [kind |-> k, result |-> r, panic |-> ""]
        Panics(msg) == [kind |-> self_kind, result |-> Ok(NoTokens), panic |-> msg]
    IN  IF attr.meta = "Invalid"
        THEN Returns(self_kind, Err(SessionDeriveBuilderError("SynError", attr.span)))
        ELSE IF attr.meta # "NameValue"
        THEN Panics("not yet implemented: unhandled meta kind")
        ELSE IF f.panic # "" THEN Panics(f.panic)
        ELSE IF attr.name = "error"
        THEN Returns(self_kind,
                     Ok([call |-> "set_primary_message", format |-> f.tokens.format,
                         args |-> f.tokens.args]))
        ELSE IF attr.name = "code"
        THEN LET r == set_kind_once(self_kind, DiagnosticId("Error", f.tokens), attr.span)
             IN  Returns(r.kind, r.result)
        ELSE IF attr.name = "lint"
        THEN LET r == set_kind_once(self_kind, DiagnosticId("Lint", f.tokens), attr.span)
             IN  Returns(r.kind, r.result)
        ELSE Panics("not implemented: Didn't recognise name")

\* build, lines 171-178: one step of the map over the struct attributes, the
\* unwrap_or_else(|v| v.to_tokens()) included.
GenerateStructureCode ==
    /\ build_pc = "attrs"
    /\ attrs # <<>>
    /\ LET attr == Head(attrs)
       IN  \E f \in IF attr.meta = "NameValue"
                    THEN build_format(structure.fields, attr.value, attr.span)
                    ELSE {[tokens |-> NoTokens, referenced_fields |-> {},
                           scanned |-> FALSE, emitted |-> {}, panic |-> ""]} :
           LET r == generate_structure_code(kind, attr, f)
               t == IF r.result.ok THEN [tokens |-> r.result.value, emitted |-> {}]
                    ELSE to_tokens(r.result.value)
           IN  /\ referenced_fields' = IF f.scanned THEN f.referenced_fields
                                       ELSE referenced_fields
               /\ IF r.panic # ""
                  THEN /\ build_pc' = "panicked"
                       /\ build_panic' = r.panic
                       /\ emitted' = emitted \cup f.emitted
                       /\ UNCHANGED <<attrs, kind, preamble>>
                  ELSE /\ kind' = r.kind
                       /\ preamble' = Append(preamble, t.tokens)
                       /\ emitted' = emitted \cup f.emitted \cup t.emitted
                       /\ attrs' = Tail(attrs)
                       /\ UNCHANGED <<build_pc, build_panic>>
    /\ UNCHANGED <<structure, implementation>>
    /\ UNCHANGED pass_vars

\* build, lines 198-221: the implementation, from the kind the attributes left.
build(self_kind, the_preamble) ==
    IF is_none(self_kind)
    THEN LET t == to_tokens(SessionDeriveBuilderError("IdNotProvided", 0))
         IN  [implementation |-> t.tokens, emitted |-> t.emitted, panic |-> ""]
    ELSE IF unwrap(self_kind).id = "Lint"
    THEN [implementation |-> NoTokens, emitted |-> {}, panic |-> "not yet implemented"]
    ELSE [implementation |-> [call |-> "struct_err_with_code",
                              format |-> unwrap(self_kind).tokens.format,
                              args |-> unwrap(self_kind).tokens.args],
          emitted |-> {}, panic |-> ""]

\* build, lines 180-230, once the struct attributes are done (the fields of the
\* struct carry no attributes, so the body of line 180 is empty).
Build ==
    /\ build_pc = "attrs"
    /\ attrs = <<>>
    /\ LET r == build(kind, preamble)
       IN  IF r.panic # ""
           THEN /\ build_pc' = "panicked"
                /\ build_panic' = r.panic
                /\ UNCHANGED <<implementation, emitted>>
           ELSE /\ implementation' = Some(r.implementation)
                /\ emitted' = emitted \cup r.emitted
                /\ build_pc' = "done"
                /\ UNCHANGED build_panic
    /\ UNCHANGED <<structure, attrs, kind, preamble, referenced_fields>>
    /\ UNCHANGED pass_vars

NextDerive == GenerateStructureCode \/ Build

\* The pass is not run.
NoPass ==
    /\ body = MkBody(0, <<>>, <<>>, {}, GenericFnDecls)
    /\ entry_body = body
    /\ pc = "done"
    /\ first_split_statement = None
    /\ liveness_results = <<>>
    /\ visit_order = <<>>
    /\ visit_index = 0
    /\ state = {}
    /\ block_map = <<>>
    /\ rpo = <<>>
    /\ exit_block = None
    /\ dominators = <<>>
    /\ locations = <<>>
    /\ last_generic_point = None
    /\ candidate_split_point = None
    /\ split_point = None
    /\ impl_fn_start = None
    /\ panic = ""

\* SessionDeriveBuilder::new, lines 138-163, on the struct s.
new(s) ==
    /\ structure = s
    /\ attrs = s.attrs
    /\ kind = None
    /\ preamble = <<>>
    /\ implementation = None
    /\ emitted = {}
    /\ referenced_fields = {}
    /\ build_pc = "attrs"
    /\ build_panic = ""

\* The values of the attributes of the derive: text without braces, a named
\* specifier, a positional one, and escaped braces.
AttrValues == {<<"x">>, <<"{", "x", "}">>, <<"{", "}">>, <<"{", "{", "x", "}", "}">>}

AttrNames == {"error", "code", "lint", "label"}

\* The attributes a struct may carry at position span.
Attributes(span) ==
    {Attribute("NameValue", n, v, span) : n \in AttrNames, v \in AttrValues}
        \cup {Attribute("Path", "code", <<>>, span), Attribute("Invalid", "code", <<>>, span)}

\* A struct with the field x and at most MaxAttrs attributes.
InitDerive ==
    \E n \in 0..MaxAttrs :
    \E as \in [1..n -> UNION {Attributes(k) : k \in 1..n}] :
        /\ \A k \in 1..n : as[k].span = k
        /\ new([attrs |-> as, fields |-> {<<"x">>}])
        /\ NoPass

SpecDerive == InitDerive /\ [][NextDerive]_vars

\* A struct with or without the field x and one `error` attribute, whose value is
\* any string of at most MaxLen characters.
InitFormat ==
    \E input \in Strings(MaxLen) :
    \E fields \in SUBSET {<<"x">>} :
        /\ new([attrs |-> <<Attribute("NameValue", "error", input, 1)>>, fields |-> fields])
        /\ NoPass

SpecFormat == InitFormat /\ [][NextDerive]_vars

(***************************************************************************)
(* Vocabulary of the claims about the derive builder.                      *)
(***************************************************************************)
\* The attribute the next step of the map takes is a `code` or `lint` attribute.
IsKindAttr(attr) == attr.meta = "NameValue" /\ attr.name \in {"code", "lint"}

\* The step returned the error e for the attribute attr: unwrap_or_else turned it
\* into its (empty) tokens and its Diagnostic, at the span of the attribute.
ReturnedError(msg, span) ==
    /\ build_pc' = build_pc
    /\ preamble' = Append(preamble, NoTokens)
    /\ Diagnostic(msg, <<>>, span) \in emitted'

\* The kind the attribute attr asks for.
KindOf(attr) == IF attr.name = "code" THEN "Error" ELSE "Lint"

(***************************************************************************)
(* C23.  The diagnostic kind is set at most once over any sequence of      *)
(* `code`/`lint` struct attributes: a kind that is set never changes; the  *)
(* first such attribute sets the kind (to the kind it names); every later  *)
(* one returns the IdMultiplyProvided error and leaves the kind as it is;  *)
(* and when the struct has no such attribute, build reports                *)
(* IdNotProvided.                                                          *)
(***************************************************************************)
C23_KindSetOnce ==
    [][/\ is_some(kind) => kind' = kind
       /\ (build_pc = "attrs" /\ attrs # <<>> /\ IsKindAttr(Head(attrs))) =>
            IF is_none(kind)
            THEN /\ is_some(kind')
                 /\ unwrap(kind').id = KindOf(Head(attrs))
                 /\ build_pc' = build_pc
            ELSE /\ kind' = kind
                 /\ ReturnedError("Diagnostic ID multiply provided", Head(attrs).span)
       /\ (build_pc = "attrs" /\ attrs = <<>>
             /\ \A k \in DOMAIN structure.attrs : ~IsKindAttr(structure.attrs[k])) =>
            /\ build_pc' = "done"
            /\ Diagnostic("Diagnostic ID not provided", <<>>, 0) \in emitted']_vars

\* The format string grammar the comment of lines 505-507 states, with `{{` and
\* `}}` the escaped braces: the position of the first character c at or after i,
\* or 0.
RECURSIVE Find(_, _, _)
Find(input, i, cs) ==
    IF i > Len(input) THEN 0
    ELSE IF input[i] \in cs THEN i
    ELSE Find(input, i + 1, cs)

\* The unescaped specifiers of the string from position i on: the set of their
\* arguments (the text between '{' and the first ':' or '}'), and whether each has
\* its closing brace.
RECURSIVE Specifiers(_, _, _)
Specifiers(input, i, arguments) ==
    IF i > Len(input) THEN [arguments |-> arguments, closed |-> TRUE]
    ELSE IF input[i] \in {"{", "}"} /\ peek(input, i + 1) = input[i]
    THEN Specifiers(input, i + 2, arguments)
    ELSE IF input[i] = "{"
    THEN LET close == Find(input, i + 1, {"}"})
             stop == Find(input, i + 1, {":", "}"})
         IN  IF close = 0
             THEN [arguments |-> arguments, closed |-> FALSE]
             ELSE Specifiers(input, close + 1,
                             arguments \cup {SubSeq(input, i + 1, stop - 1)})
    ELSE Specifiers(input, i + 1, arguments)

\* The argument names: a specifier with no argument names no field.
ArgumentNames(input) == Specifiers(input, 1, {}).arguments \ {<<>>}

AllClosed(input) == Specifiers(input, 1, {}).closed

\* The string the one attribute of the struct carries, and build_format is over.
FormatInput == structure.attrs[1].value

FormatDone == Len(structure.attrs) = 1 /\ (attrs = <<>> \/ build_pc = "panicked")

FellOff == build_panic = "Fell off end of format string without finding closing brace"

(***************************************************************************)
(* C24.  For every format string: the scan of build_format, when it gets   *)
(* through, has collected exactly the argument names of the unescaped      *)
(* specifiers (so nothing from inside an escaped `{{ ... }}` pair); and    *)
(* when every specifier of the string is closed, the scan does not fail.   *)
(***************************************************************************)
C24_ReferencedFields ==
    FormatDone =>
        /\ ~FellOff => referenced_fields = ArgumentNames(FormatInput)
        /\ AllClosed(FormatInput) => ~FellOff

====
